---- MODULE Spec2Model ----
(***************************************************************************)
(* LinkSqueezer (server.js and its unauthenticated variant): the three     *)
(* SQLite tables, the JWT middleware and the HTTP handlers.  Every handler *)
(* is synchronous except register and login, which yield to the event loop *)
(* once (await bcrypt.hash / await bcrypt.compare); a synchronous handler  *)
(* is one action, an asynchronous one is a start and a finish action.      *)
(***************************************************************************)
EXTENDS Integers, Sequences, FiniteSets, Bags, TLC

\* ---------------------------------------------------------------- bounds
MaxId == 2         \* how many distinct values nanoid(10) can return
MaxCode == 2       \* how many distinct short codes (custom or nanoid(6))
MaxTime == 2       \* how many clock seconds pass
TokenTTL == 1      \* expiresIn '7d', in clock seconds of the model
DayLen == 2        \* clock seconds in one calendar date
MaxPending == 2    \* handlers suspended at an await at the same time
MaxReq == 4        \* how many requests the run receives

\* ---------------------------------------------------------------- values
Null == "null"
IdName == [i \in 1..3 |-> <<"id1", "id2", "id3">>[i]]
CodeName == [i \in 1..3 |-> <<"abc123", "xyz789", "qrs456">>[i]]
Ids == {IdName[i] : i \in 1..MaxId}
Codes == {CodeName[i] : i \in 1..MaxCode}
Emails == {"a@x.com", "b@x.com"}
Passwords == {<<>>, <<1, 2, 3, 4, 5>>, <<1, 2, 3, 4, 5, 6>>}
Urls == {"https://example.com"}
Titles == {"Example"}
UserAgents == {"curl/8"}
Referers == {""}
PORT == 3000
DemoUser == "demo-user"
JWT_SECRET == "linksqueezer-secret-change-in-prod"
LimitDaily == 7

\* ---------------------------------------------------------------- state
VARIABLES users, links, clicks, now, pending, resp, nreq

vars == <<users, links, clicks, now, pending, resp, nreq>>

\* JS truthiness of a string request field: undefined and '' are both falsy.
Truthy(v) == v # ""

OrNull(v) == IF Truthy(v) THEN v ELSE Null

\* nanoid(10) and nanoid(6): a random identifier; any value may come back.
nanoid10 == Ids
nanoid6 == Codes

\* ------------------------------------------------------------ persistence
\* Rows are kept in insertion (rowid) order.
RowsOf(table) == {table[i] : i \in 1..Len(table)}

UniqueErr(col) == <<"UNIQUE", "constraint", "failed:", col>>
ForeignKeyErr == <<"FOREIGN", "KEY", "constraint", "failed">>
NoErr == <<>>

\* err.message.includes(pat), on messages held as word sequences.
Includes(msg, pat) ==
    \E i \in 1..(Len(msg) + 1) :
        /\ i + Len(pat) - 1 <= Len(msg)
        /\ SubSeq(msg, i, i + Len(pat) - 1) = pat

UniqueFailed == <<"UNIQUE", "constraint", "failed:">>

\* users.id PRIMARY KEY, users.email UNIQUE
UserIdTaken(id) == \E u \in RowsOf(users) : u.id = id
EmailTaken(email) == \E u \in RowsOf(users) : u.email = email

\* links.id PRIMARY KEY
LinkIdTaken(id) == \E l \in RowsOf(links) : l.id = id

\* (variant: short_code declared without UNIQUE)
ShortCodeTaken_NoUnique(code) == FALSE

\* links.short_code UNIQUE
ShortCodeTaken(code) == \E l \in RowsOf(links) : l.short_code = code

\* clicks.id PRIMARY KEY
ClickIdTaken(id) == \E c \in RowsOf(clicks) : c.id = id

\* (variant: the foreign key on links.user_id is not enforced)
UserFkOk_Off(uid) == TRUE

\* FOREIGN KEY (user_id) REFERENCES users(id); better-sqlite3 opens every
\* connection with foreign keys enforced.
UserFkOk(uid) == \E u \in RowsOf(users) : u.id = uid

\* FOREIGN KEY (link_id) REFERENCES links(id)
LinkFkOk(lid) == \E l \in RowsOf(links) : l.id = lid

\* INSERT INTO users (id, email, password_hash): the error it throws, or NoErr
InsertUserErr(id, email) ==
    IF UserIdTaken(id) THEN UniqueErr("users.id")
    ELSE IF EmailTaken(email) THEN UniqueErr("users.email")
    ELSE NoErr

UserRow(id, email, hash) ==
    [id |-> id, email |-> email, password_hash |-> hash, created_at |-> now]

\* INSERT INTO links (id, user_id, original_url, short_code, title)
InsertLinkErr(id, uid, code) ==
    IF LinkIdTaken(id) THEN UniqueErr("links.id")
    ELSE IF ShortCodeTaken(code) THEN UniqueErr("links.short_code")
    ELSE IF ~UserFkOk(uid) THEN ForeignKeyErr
    ELSE NoErr

LinkRow(id, uid, url, code, title) ==
    [id |-> id, user_id |-> uid, original_url |-> url, short_code |-> code,
     title |-> title, is_active |-> 1, created_at |-> now]

\* INSERT INTO clicks (id, link_id, user_agent, referer)
InsertClickErr(id, lid) ==
    IF ClickIdTaken(id) THEN UniqueErr("clicks.id")
    ELSE IF ~LinkFkOk(lid) THEN ForeignKeyErr
    ELSE NoErr

ClickRow(id, lid, ua, ref) ==
    [id |-> id, link_id |-> lid, user_agent |-> ua, referer |-> ref,
     country |-> Null, created_at |-> now]

\* ------------------------------------------------------------------ tokens
\* jwt.sign(payload, secret, {expiresIn: '7d'})
Sign(id, email, secret) ==
    [id |-> id, email |-> email, exp |-> now + TokenTTL, key |-> secret]

\* (variant: the expiry of the token is not looked at)
Verify_NoExpiry(token) == token.key = JWT_SECRET

\* jwt.verify(token, JWT_SECRET): the signature matches and now < exp
Verify(token) == token.key = JWT_SECRET /\ now < token.exp

\* bcrypt.hash(password, 10) and bcrypt.compare(password, hash)
Hash(password) == <<"$2a$10$">> \o password
Compare(password, hash) == hash = <<"$2a$10$">> \o password

\* The Authorization header as its space-separated words; <<>> is no header.
NoToken == [id |-> "", email |-> "", exp |-> 0, key |-> ""]

\* authHeader && authHeader.split(' ')[1]
TokenOf(header) == IF Len(header) >= 2 THEN header[2] ELSE NoToken

\* The server keeps no record of the tokens it signs.  A client holds a
\* token signed with JWT_SECRET only if register or login signed it: for a
\* stored user, at the second of registration or at any later second.
Issued ==
    UNION {{[id |-> u.id, email |-> u.email, exp |-> t + TokenTTL,
             key |-> JWT_SECRET] : t \in u.created_at..now} :
           u \in RowsOf(users)}

\* Tokens a client can present: the ones this server signed, and tokens
\* signed with some other secret.
Forged == {[id |-> IdName[1], email |-> "a@x.com", exp |-> now + TokenTTL,
            key |-> "attacker-secret"]}
Headers == {<<>>, <<"Bearer">>} \cup {<<"Bearer", t>> : t \in Issued \cup Forged}

\* authenticateToken: 0 stands for next() with req.user = the token payload
AuthStatus(header) ==
    IF TokenOf(header) = NoToken THEN 401
    ELSE IF ~Verify(TokenOf(header)) THEN 403
    ELSE 0

AuthError(status) ==
    IF status = 401 THEN "Access token required" ELSE "Invalid or expired token"

\* --------------------------------------------------------------- responses
\* resp is what the step just sent: the request, the status, the body and,
\* for the handlers that draw random identifiers, the values drawn.
Response(op, req, status, body) ==
    [op |-> op, req |-> req, status |-> status, body |-> body, drawn |-> <<>>]

Drew(r, shortCode, id) ==
    [r EXCEPT !.drawn = [shortCode |-> shortCode, id |-> id]]

ErrBody(msg) == [error |-> msg]

\* What a step leaves in resp when it sends no response.
NoResp == [op |-> "none", req |-> <<>>, status |-> 0, body |-> <<>>,
           drawn |-> <<>>]

\* pending is the bag of handlers suspended at an await; any may resume.
Init ==
    /\ nreq = 0
    /\ users = <<>>
    /\ links = <<>>
    /\ clicks = <<>>
    /\ now = 0
    /\ pending = EmptyBag
    /\ resp = NoResp

\* ----------------------------------------------------------------- register
\* POST /api/auth/register up to `await bcrypt.hash`
Register(email, password) ==
    /\ nreq < MaxReq
    /\ nreq' = nreq + 1
    /\ LET req == [email |-> email, password |-> password] IN
       IF ~Truthy(email) \/ Len(password) = 0 THEN
            /\ resp' = Response("register", req, 400,
                                ErrBody("Email and password are required"))
            /\ UNCHANGED pending
       ELSE IF Len(password) < 6 THEN
            /\ resp' = Response("register", req, 400,
                                ErrBody("Password must be at least 6 characters"))
            /\ UNCHANGED pending
       ELSE
            /\ BagCardinality(pending) < MaxPending
            /\ \E id \in nanoid10 :
                 pending' = pending (+) SetToBag(
                    {[kind |-> "register", id |-> id, email |-> email,
                      password |-> password, password_hash |-> <<>>]})
            /\ resp' = NoResp
    /\ UNCHANGED <<users, links, clicks, now>>

\* POST /api/auth/register from the insert on, once the hash is there
RegisterFinish(p) ==
    /\ UNCHANGED nreq
    /\ p.kind = "register"
    /\ pending' = pending (-) SetToBag({p})
    /\ LET req == [email |-> p.email, password |-> p.password]
           err == InsertUserErr(p.id, p.email)
           token == Sign(p.id, p.email, JWT_SECRET)
       IN
       IF err = NoErr THEN
            /\ users' = Append(users, UserRow(p.id, p.email, Hash(p.password)))
            /\ resp' = Response("register", req, 200,
                    [success |-> TRUE,
                     data |-> [user |-> [id |-> p.id, email |-> p.email],
                               token |-> token]])
       ELSE IF Includes(err, UniqueFailed) THEN
            /\ resp' = Response("register", req, 400,
                                ErrBody("Email already registered"))
            /\ UNCHANGED users
       ELSE
            /\ resp' = Response("register", req, 500, ErrBody(err))
            /\ UNCHANGED users
    /\ UNCHANGED <<links, clicks, now>>

\* -------------------------------------------------------------------- login
\* SELECT * FROM users WHERE email = ?
FindUserByEmail(email) == {u \in RowsOf(users) : u.email = email}

\* POST /api/auth/login up to `await bcrypt.compare`
Login(email, password) ==
    /\ nreq < MaxReq
    /\ nreq' = nreq + 1
    /\ LET req == [email |-> email, password |-> password] IN
       IF ~Truthy(email) \/ Len(password) = 0 THEN
            /\ resp' = Response("login", req, 400,
                                ErrBody("Email and password are required"))
            /\ UNCHANGED pending
       ELSE IF FindUserByEmail(email) = {} THEN
            /\ resp' = Response("login", req, 401, ErrBody("Invalid credentials"))
            /\ UNCHANGED pending
       ELSE
            /\ BagCardinality(pending) < MaxPending
            /\ \E user \in FindUserByEmail(email) :
                 pending' = pending (+) SetToBag(
                    {[kind |-> "login", id |-> user.id, email |-> user.email,
                      password |-> password,
                      password_hash |-> user.password_hash]})
            /\ resp' = NoResp
    /\ UNCHANGED <<users, links, clicks, now>>

\* POST /api/auth/login once the comparison is there
LoginFinish(p) ==
    /\ UNCHANGED nreq
    /\ p.kind = "login"
    /\ pending' = pending (-) SetToBag({p})
    /\ LET req == [email |-> p.email, password |-> p.password]
           token == Sign(p.id, p.email, JWT_SECRET)
       IN
       IF ~Compare(p.password, p.password_hash) THEN
            /\ resp' = Response("login", req, 401, ErrBody("Invalid credentials"))
       ELSE
            /\ resp' = Response("login", req, 200,
                    [success |-> TRUE,
                     data |-> [user |-> [id |-> p.id, email |-> p.email],
                               token |-> token]])
    /\ UNCHANGED <<users, links, clicks, now>>

\* ------------------------------------------------------------- create link
\* The handler of POST /api/links, with `owner` the user_id it inserts.
CreateLinkHandler(op, req, owner) ==
    IF ~Truthy(req.originalUrl) THEN
        /\ resp' = Response(op, req, 400, ErrBody("originalUrl is required"))
        /\ UNCHANGED links
    ELSE
        \E shortCode \in (IF Truthy(req.customCode) THEN {req.customCode}
                                                     ELSE nanoid6) :
        \E id \in nanoid10 :
            LET err == InsertLinkErr(id, owner, shortCode) IN
            IF err = NoErr THEN
                /\ links' = Append(links,
                        LinkRow(id, owner, req.originalUrl, shortCode,
                                OrNull(req.title)))
                /\ resp' = Drew(Response(op, req, 200,
                        [success |-> TRUE,
                         data |-> [id |-> id, originalUrl |-> req.originalUrl,
                                   shortCode |-> shortCode,
                                   shortUrl |-> <<"http://localhost:", PORT, "/",
                                                  shortCode>>,
                                   title |-> req.title]]), shortCode, id)
            ELSE IF Includes(err, UniqueFailed) THEN
                /\ resp' = Drew(Response(op, req, 400,
                                ErrBody("Short code already exists")),
                                shortCode, id)
                /\ UNCHANGED links
            ELSE
                /\ resp' = Drew(Response(op, req, 500, ErrBody(err)),
                                shortCode, id)
                /\ UNCHANGED links

\* POST /api/links behind authenticateToken
CreateLink(header, originalUrl, title, customCode) ==
    /\ nreq < MaxReq
    /\ nreq' = nreq + 1
    /\ LET req == [header |-> header, originalUrl |-> originalUrl,
                   title |-> title, customCode |-> customCode]
           auth == AuthStatus(header)
       IN
       IF auth # 0 THEN
            /\ resp' = Response("createLink", req, auth, ErrBody(AuthError(auth)))
            /\ UNCHANGED links
       ELSE CreateLinkHandler("createLink", req, TokenOf(header).id)
    /\ UNCHANGED <<users, clicks, now, pending>>

\* POST /api/links of the variant without authentication
CreateLinkDemo(originalUrl, title, customCode) ==
    /\ nreq < MaxReq
    /\ nreq' = nreq + 1
    /\ CreateLinkHandler("createLinkDemo",
            [header |-> <<>>, originalUrl |-> originalUrl, title |-> title,
             customCode |-> customCode], DemoUser)
    /\ UNCHANGED <<users, clicks, now, pending>>

\* --------------------------------------------------------------- list links
\* SELECT * FROM links WHERE user_id = ?
LinksOfUser(uid) == {l \in RowsOf(links) : l.user_id = uid}

\* ORDER BY created_at DESC: every arrangement of the rows in which
\* created_at never increases; SQL leaves the order of equal keys open.
OrderByCreatedAtDesc(rows) ==
    {s \in [1..Cardinality(rows) -> rows] :
        /\ \A i, j \in DOMAIN s : i # j => s[i] # s[j]
        /\ \A i, j \in DOMAIN s : i < j => s[i].created_at >= s[j].created_at}

ListLinksHandler(op, req, owner) ==
    \E result \in OrderByCreatedAtDesc(LinksOfUser(owner)) :
        resp' = Response(op, req, 200, [success |-> TRUE, data |-> result])

\* GET /api/links behind authenticateToken
ListLinks(header) ==
    /\ nreq < MaxReq
    /\ nreq' = nreq + 1
    /\ LET req == [header |-> header]
           auth == AuthStatus(header)
       IN
       IF auth # 0 THEN
            resp' = Response("listLinks", req, auth, ErrBody(AuthError(auth)))
       ELSE ListLinksHandler("listLinks", req, TokenOf(header).id)
    /\ UNCHANGED <<users, links, clicks, now, pending>>

\* GET /api/links of the variant without authentication
ListLinksDemo ==
    /\ nreq < MaxReq
    /\ nreq' = nreq + 1
    /\ ListLinksHandler("listLinksDemo", [header |-> <<>>], DemoUser)
    /\ UNCHANGED <<users, links, clicks, now, pending>>

\* ----------------------------------------------------------------- redirect
\* (variant: the lookup leaves out `AND is_active = 1`)
FindActiveLink_AnyState(shortCode) ==
    {l \in RowsOf(links) : l.short_code = shortCode}

\* SELECT * FROM links WHERE short_code = ? AND is_active = 1
FindActiveLink(shortCode) ==
    {l \in RowsOf(links) : l.short_code = shortCode /\ l.is_active = 1}

\* GET /:shortCode.  stmt.run throws inside the handler when the insert
\* fails; Express answers an exception thrown by a handler with 500.
Redirect(shortCode, userAgent, referer) ==
    /\ nreq < MaxReq
    /\ nreq' = nreq + 1
    /\ LET req == [shortCode |-> shortCode, userAgent |-> userAgent,
                   referer |-> referer]
       IN
       IF FindActiveLink(shortCode) = {} THEN
            /\ resp' = Response("redirect", req, 404, ErrBody("Link not found"))
            /\ UNCHANGED clicks
       ELSE
            \E link \in FindActiveLink(shortCode) :
            \E clickId \in nanoid10 :
                LET err == InsertClickErr(clickId, link.id) IN
                IF err = NoErr THEN
                    /\ clicks' = Append(clicks,
                            ClickRow(clickId, link.id, OrNull(userAgent),
                                     OrNull(referer)))
                    /\ resp' = Response("redirect", req, 302,
                                        [location |-> link.original_url])
                ELSE
                    /\ resp' = Response("redirect", req, 500, ErrBody(err))
                    /\ UNCHANGED clicks
    /\ UNCHANGED <<users, links, now, pending>>

\* ---------------------------------------------------------------- analytics
\* SELECT * FROM links WHERE id = ?
FindLinkById(id) == {l \in RowsOf(links) : l.id = id}

\* DATE(created_at)
DateOf(t) == t \div DayLen

ClicksOfLink(id) == {i \in 1..Len(clicks) : clicks[i].link_id = id}

\* COUNT(*) as total_clicks
TotalClicks(id) == Cardinality(ClicksOfLink(id))

DatesOfLink(id) == {DateOf(clicks[i].created_at) : i \in ClicksOfLink(id)}

\* COUNT(DISTINCT DATE(created_at)) as active_days
ActiveDays(id) == Cardinality(DatesOfLink(id))

\* ORDER BY date DESC
RECURSIVE SortDesc(_)
SortDesc(S) ==
    IF S = {} THEN <<>>
    ELSE LET m == CHOOSE x \in S : \A y \in S : y <= x
         IN <<m>> \o SortDesc(S \ {m})

Take(s, n) == SubSeq(s, 1, IF Len(s) < n THEN Len(s) ELSE n)

\* GROUP BY DATE(created_at) ORDER BY date DESC LIMIT 7
Daily(id) ==
    LET dates == Take(SortDesc(DatesOfLink(id)), LimitDaily) IN
    [k \in 1..Len(dates) |->
        [date |-> dates[k],
         clicks |-> Cardinality({i \in ClicksOfLink(id) :
                                    DateOf(clicks[i].created_at) = dates[k]})]]

\* GET /api/links/:id/analytics
Analytics(id) ==
    /\ nreq < MaxReq
    /\ nreq' = nreq + 1
    /\ LET req == [id |-> id] IN
       IF FindLinkById(id) = {} THEN
            resp' = Response("analytics", req, 404, ErrBody("Link not found"))
       ELSE
            \E link \in FindLinkById(id) :
                resp' = Response("analytics", req, 200,
                    [success |-> TRUE,
                     data |-> [link |-> link,
                               stats |-> [total_clicks |-> TotalClicks(id),
                                          active_days |-> ActiveDays(id)],
                               daily |-> Daily(id)]])
    /\ UNCHANGED <<users, links, clicks, now, pending>>

\* GET /api/health
Health ==
    /\ nreq < MaxReq
    /\ nreq' = nreq + 1
    /\ resp' = Response("health", <<>>, 200, [status |-> "ok", timestamp |-> now])
    /\ UNCHANGED <<users, links, clicks, now, pending>>

\* -------------------------------------------------------------- environment
\* One second passes on the clock behind CURRENT_TIMESTAMP and jwt's exp.
Tick ==
    /\ UNCHANGED nreq
    /\ now < MaxTime
    /\ now' = now + 1
    /\ resp' = NoResp
    /\ UNCHANGED <<users, links, clicks, pending>>

\* A link is soft-deleted: its is_active flag is cleared in the store.
Deactivate(i) ==
    /\ nreq < MaxReq
    /\ nreq' = nreq + 1
    /\ links[i].is_active = 1
    /\ links' = [links EXCEPT ![i].is_active = 0]
    /\ resp' = NoResp
    /\ UNCHANGED <<users, clicks, now, pending>>

Next ==
    \/ \E e \in Emails \cup {""}, p \in Passwords : Register(e, p)
    \/ \E p \in BagToSet(pending) : RegisterFinish(p)
    \/ \E e \in Emails \cup {""}, p \in Passwords : Login(e, p)
    \/ \E p \in BagToSet(pending) : LoginFinish(p)
    \/ \E h \in Headers, u \in Urls \cup {""}, t \in Titles, c \in Codes \cup {""} :
            CreateLink(h, u, t, c)
    \/ \E u \in Urls \cup {""}, t \in Titles, c \in Codes \cup {""} :
            CreateLinkDemo(u, t, c)
    \/ \E h \in Headers : ListLinks(h)
    \/ ListLinksDemo
    \/ \E c \in Codes, ua \in UserAgents, r \in Referers : Redirect(c, ua, r)
    \/ \E id \in Ids : Analytics(id)
    \/ Health
    \/ Tick
    \/ \E i \in 1..Len(links) : Deactivate(i)

Spec == Init /\ [][Next]_vars

\* =================================================================== claims
\* Every action leaves in resp' the response it sent (NoResp if none), so
\* resp'.op tells which handler a step belongs to.

RowIndex(id) == CHOOSE i \in 1..Len(links) : links[i].id = id

\* C1: no two distinct rows of the links table share a short_code, whatever
\* createLink requests (with or without customCode) were handled.
C1_ShortCodesUnique ==
    \A i, j \in 1..Len(links) :
        i # j => links[i].short_code # links[j].short_code

\* Two links are stored, the second one created with a generated code.
C1_Witness ==
    /\ Len(links) >= 2
    /\ resp.op = "createLink"
    /\ resp.status = 200
    /\ resp.req.customCode = ""

\* C2 (as claimed): a createLink with a customCode succeeds and inserts one
\* row when no link has that code, and fails with 400 leaving the table
\* unchanged when one has; so of several requests for one free code exactly
\* the first one handled succeeds.
C2_ExactlyOneSucceeds ==
    [][(/\ resp'.op = "createLink"
        /\ resp'.status \notin {401, 403}
        /\ Truthy(resp'.req.originalUrl)
        /\ Truthy(resp'.req.customCode))
       => IF \E l \in RowsOf(links) : l.short_code = resp'.req.customCode
          THEN resp'.status = 400 /\ links' = links
          ELSE /\ resp'.status = 200
               /\ Len(links') = Len(links) + 1
               /\ links'[Len(links')].short_code = resp'.req.customCode
               /\ SubSeq(links', 1, Len(links)) = links]_vars

\* C3 (as claimed): a register that reaches the insert fails with 400 and
\* leaves users unchanged when its email is stored, and succeeds otherwise;
\* so of two interleaved registers for one free email exactly the first to
\* reach the insert succeeds, and there is at most one row per email.
C3_DuplicateEmailRejected ==
    [][(resp'.op = "register" /\ pending' # pending)
       => /\ IF \E u \in RowsOf(users) : u.email = resp'.req.email
             THEN resp'.status = 400 /\ users' = users
             ELSE resp'.status = 200 /\ Len(users') = Len(users) + 1
          /\ \A i, j \in 1..Len(users') :
                i # j => users'[i].email # users'[j].email]_vars

\* C4 (as claimed): GET /:shortCode on an active link ends with a redirect
\* to the link's original URL whether or not the click row could be stored.
C4_RedirectDespiteClickFailure ==
    [][resp'.op = "redirect"
       => \A l \in RowsOf(links) :
            (l.short_code = resp'.req.shortCode /\ l.is_active = 1)
            => (resp'.status = 302 /\ resp'.body.location = l.original_url)]_vars

\* C5: GET /:shortCode for a code that no link has, or that only an
\* inactive link has, answers 404 and changes no table.
C5_InactiveOrMissingIs404 ==
    [][(/\ resp'.op = "redirect"
        /\ \A l \in RowsOf(links) :
              l.short_code = resp'.req.shortCode => l.is_active = 0)
       => (resp'.status = 404 /\ UNCHANGED <<users, links, clicks>>)]_vars

\* A visit of the short code of an inactive link was answered with 404.
C5_Witness ==
    /\ resp.op = "redirect"
    /\ resp.status = 404
    /\ \E l \in RowsOf(links) :
          l.short_code = resp.req.shortCode /\ l.is_active = 0

\* C6 (as claimed): every visit of an active short code is a redirect to
\* its original URL and raises the link's total_clicks by exactly one, and
\* no step lowers any link's total_clicks.
C6_EachVisitCountsOnce ==
    [][/\ \A id \in Ids : TotalClicks(id)' >= TotalClicks(id)
       /\ resp'.op = "redirect"
          => \A l \in RowsOf(links) :
               (l.short_code = resp'.req.shortCode /\ l.is_active = 1)
               => /\ resp'.status = 302
                  /\ resp'.body.location = l.original_url
                  /\ TotalClicks(l.id)' = TotalClicks(l.id) + 1]_vars

\* C7: every click row references a stored link and every link row
\* references a stored user.
C7_ReferencesExist ==
    /\ \A i \in 1..Len(clicks) :
          \E j \in 1..Len(links) : links[j].id = clicks[i].link_id
    /\ \A j \in 1..Len(links) :
          \E k \in 1..Len(users) : users[k].id = links[j].user_id

\* A click row is stored (and with it a link and a user).
C7_Witness == Len(clicks) >= 1 /\ Len(links) >= 1 /\ Len(users) >= 1

\* C8: on POST /api/links and GET /api/links a request without a token gets
\* 401, one with a wrongly signed or expired token gets 403, and in both
\* cases no link is stored and only the error is returned; any other answer
\* comes from the handler running as the user the valid token names.
C8_ProtectedRoutes ==
    [][resp'.op \in {"createLink", "listLinks"}
       => LET h == resp'.req.header
              has == Len(h) >= 2
              bad == has /\ (h[2].key # JWT_SECRET \/ now >= h[2].exp)
          IN
          /\ ~has => /\ resp'.status = 401
                     /\ resp'.body = ErrBody("Access token required")
                     /\ links' = links
          /\ bad => /\ resp'.status = 403
                    /\ resp'.body = ErrBody("Invalid or expired token")
                    /\ links' = links
          /\ resp'.status \notin {401, 403}
             => /\ has /\ ~bad
                /\ \E u \in RowsOf(users) : u.id = h[2].id /\ u.email = h[2].email
                /\ (resp'.op = "createLink" /\ resp'.status = 200)
                   => links'[Len(links')].user_id = h[2].id
                /\ resp'.op = "listLinks"
                   => \A k \in 1..Len(resp'.body.data) :
                        resp'.body.data[k].user_id = h[2].id]_vars

\* A createLink with a token this server signed, now expired, got 403.
C8_Witness ==
    /\ resp.op = "createLink"
    /\ resp.status = 403
    /\ Len(resp.req.header) >= 2
    /\ resp.req.header[2].key = JWT_SECRET
    /\ now >= resp.req.header[2].exp

\* C9 (as claimed): listLinks returns exactly the owner's links, each once,
\* and of any two of them the one created later comes first, also when
\* both were created within the same second.
C9_OwnLinksNewestFirst ==
    [][(resp'.op = "listLinks" /\ resp'.status = 200)
       => LET data == resp'.body.data
              owner == resp'.req.header[2].id
          IN
          /\ {data[k] : k \in 1..Len(data)}
                = {l \in RowsOf(links) : l.user_id = owner}
          /\ \A i, j \in 1..Len(data) :
                i < j => RowIndex(data[i].id) > RowIndex(data[j].id)]_vars

\* C10 (as claimed): createLink answers 400 'Short code already exists'
\* only when a stored link already has the requested or generated code.
C10_ConflictMeansCodeTaken ==
    [][(/\ resp'.op = "createLink"
        /\ resp'.status = 400
        /\ resp'.body = ErrBody("Short code already exists"))
       => \E l \in RowsOf(links) : l.short_code = resp'.drawn.shortCode]_vars

====
